---- MODULE Spec2Model ----
(***************************************************************************)
(* Model of server/main.py: the /offer signaling handler, the registry     *)
(* pcs of peer connections, the connectionstatechange and track observers, *)
(* the shutdown handler and the /detect handler.                           *)
(*                                                                         *)
(* The program runs on one asyncio event loop: a handler runs without      *)
(* interruption from one await to the next, so every action below is the   *)
(* code between two suspension points.  The aiortc peer connection, PIL    *)
(* and the YOLO engine are collaborators outside the repository: their     *)
(* results are inputs chosen by the environment (\E), restricted only by   *)
(* what the handlers themselves rely on.                                   *)
(***************************************************************************)
EXTENDS Integers, Sequences, FiniteSets, TLC

\* ---------------------------------------------------------------- bounds
MaxOffers == 2        \* /offer calls made in a run; call k creates connection k
MaxPending == 1       \* state-change handler tasks scheduled and not yet run, per connection
MaxShutdowns == 2     \* times the shutdown handler is run
MaxTracks == 2        \* track events delivered per connection

Conns == 1..MaxOffers

\* ------------------------------------------------------------ offer inputs
SdpBodies == {"", "v=0"}
OfferTypes == {"", "offer", "answer"}
\* RTCSessionDescription(sdp=..., type=...) accepts these types and raises
\* ValueError for any other (main.py:196).
ValidSdpTypes == {"offer", "pranswer", "answer", "rollback"}

ConnStates == {"new", "connecting", "connected", "disconnected", "failed", "closed"}

\* Transitions the transport makes on its own (close() makes the one to "closed").
TransportNext(s) ==
  CASE s = "new" -> {"connecting"}
    [] s = "connecting" -> {"connected", "failed"}
    [] s = "connected" -> {"disconnected", "failed"}
    [] s = "disconnected" -> {"connected", "failed"}
    [] OTHER -> {}

VARIABLES
  pcs,      \* the registry: set of connections (main.py:44)
  conn,     \* per connection: the RTCPeerConnection object
  call,     \* per /offer call: inputs, position, steps taken, outcome
  obs,      \* per connection: on_connectionstatechange tasks
  sd,       \* the shutdown handler
  nshut,    \* shutdown handlers run so far
  world,    \* what PIL and the engine do with the image of this run
  det       \* the /detect calls made: request and response

lvars == <<pcs, conn, call, obs, sd, nshut>>
dvars == <<world, det>>
vars == <<pcs, conn, call, obs, sd, nshut, world, det>>

NoDesc == [sdp |-> "", type |-> ""]

NewConn ==
  [created |-> FALSE, connectionState |-> "new", observers |-> {},
   isClosed |-> FALSE, closeCalls |-> 0, closeDone |-> FALSE,
   localDescription |-> NoDesc, videoIn |-> 0, senders |-> 0, subs |-> 0,
   events |-> 0]

IdleCall ==
  [stage |-> "idle", sdp |-> "", type |-> "", log |-> <<>>,
   resp |-> NoDesc]

\* raised: a handler task ended with an exception; absent: a handler's
\* pcs.discard(pc) found the connection already gone.
IdleObs ==
  [pending |-> 0, driving |-> FALSE, waiting |-> 0, raised |-> FALSE,
   absent |-> FALSE]

IdleSd ==
  [stage |-> "idle", snapshot |-> {}, unstarted |-> {}, driving |-> {},
   waiting |-> {}, raised |-> {}]

\* ------------------------------------------------------------------ /offer

\* A handler that creates the connection and does not register it.
RegistryAddNothing(reg, c) == reg

\* pcs.add(pc), main.py:199
RegistryAdd(reg, c) == reg \cup {c}

\* set.remove, which the code does not use: KeyError if the element is absent.
RegistryRemove(reg, c) == [reg |-> reg \ {c}, raised |-> c \notin reg]

\* A discard that leaves a registry without the entries of the others.
RegistryDiscardAll(reg, c) == [reg |-> {}, raised |-> FALSE]

\* pcs.discard(pc), main.py:206: set.discard removes the element if present
\* and does nothing, without an error, otherwise.
RegistryDiscard(reg, c) == [reg |-> reg \ {c}, raised |-> FALSE]

\* The handler's last statement, main.py:206, on the handler's record o.
HandlerDiscard(c, o) ==
  LET r == RegistryDiscard(pcs, c)
  IN /\ pcs' = IF r.raised THEN pcs ELSE r.reg
     /\ obs' = [obs EXCEPT ![c] =
          [o EXCEPT !.raised = @ \/ r.raised, !.absent = @ \/ c \notin pcs]]

\* A handler that attaches the track observer too late to be of use.
StateObserverOnly == {"connectionstatechange"}

\* The observers attached by the two decorators, main.py:201 and 209.
AttachedObservers == {"connectionstatechange", "track"}

\* offer(), main.py:196-216, up to the first await.
OfferStart(k, sdp, type) ==
  /\ call[k].stage = "idle"
  /\ \A j \in Conns : j < k => call[j].stage # "idle"
  /\ IF type \notin ValidSdpTypes
     THEN \* RTCSessionDescription raises; no connection is created
          /\ call' = [call EXCEPT ![k] =
               [@ EXCEPT !.stage = "raised", !.sdp = sdp, !.type = type]]
          /\ UNCHANGED <<pcs, conn>>
     ELSE /\ pcs' = RegistryAdd(pcs, k)
          /\ conn' = [conn EXCEPT ![k] =
               [@ EXCEPT !.created = TRUE, !.observers = AttachedObservers]]
          /\ call' = [call EXCEPT ![k] =
               [@ EXCEPT !.stage = "setRemote", !.sdp = sdp, !.type = type,
                         !.log = <<"create", "register", "attach", "setRemote">>]]
  /\ UNCHANGED <<obs, sd, nshut>>
  /\ UNCHANGED dvars

\* createAnswer(), main.py:219: the description aiortc builds for an answer.
CreateAnswer == [sdp |-> "v=0 answer", type |-> "answer"]

\* The returned body, main.py:222.
OfferResponse(pc) == [sdp |-> pc.localDescription.sdp, type |-> pc.localDescription.type]

\* The transport applies a remote description only if it is an offer and the
\* connection is open; it creates and applies an answer only on an open
\* connection.  Any of the three calls may also fail for reasons of its own.
CanNegotiate(k) == call[k].type = "offer" /\ ~conn[k].isClosed

\* A failed await, main.py:216-220: the exception leaves offer(); nothing
\* else runs.
OfferRaise(k) == call' = [call EXCEPT ![k].stage = "raised"]

\* await pc.setRemoteDescription(offer) returns or raises, main.py:216-219.
OfferRemoteDone(k, ok) ==
  /\ call[k].stage = "setRemote"
  /\ IF ok
     THEN /\ CanNegotiate(k)
          /\ call' = [call EXCEPT ![k].stage = "createAnswer",
                                  ![k].log = Append(@, "createAnswer")]
     ELSE OfferRaise(k)
  /\ UNCHANGED <<pcs, conn, obs, sd, nshut>>
  /\ UNCHANGED dvars

\* answer = await pc.createAnswer() returns or raises, main.py:219-220.
OfferAnswerCreated(k, ok) ==
  /\ call[k].stage = "createAnswer"
  /\ IF ok
     THEN /\ CanNegotiate(k)
          /\ call' = [call EXCEPT ![k].stage = "setLocal",
                                  ![k].log = Append(@, "setLocal")]
     ELSE OfferRaise(k)
  /\ UNCHANGED <<pcs, conn, obs, sd, nshut>>
  /\ UNCHANGED dvars

\* await pc.setLocalDescription(answer) returns or raises; return, main.py:220-222.
OfferLocalDone(k, ok) ==
  /\ call[k].stage = "setLocal"
  /\ IF ok
     THEN /\ CanNegotiate(k)
          /\ conn' = [conn EXCEPT ![k].localDescription = CreateAnswer]
          /\ call' = [call EXCEPT ![k].stage = "returned",
                                  ![k].log = Append(@, "return"),
                                  ![k].resp = OfferResponse(conn'[k])]
     ELSE OfferRaise(k) /\ UNCHANGED conn
  /\ UNCHANGED <<pcs, obs, sd, nshut>>
  /\ UNCHANGED dvars

\* ----------------------------------------------------------- track events

TrackKinds == {"audio", "video"}

\* A handler that relays a track of any kind.
OnTrackAnyKind(pc, kind) == [pc EXCEPT !.subs = @ + 1, !.senders = @ + 1]

\* on_track, main.py:209-213: a video track is subscribed on the relay and a
\* VideoTransformTrack on the subscription is added to the same connection.
OnTrack(pc, kind) ==
  IF kind = "video"
  THEN [pc EXCEPT !.subs = @ + 1, !.senders = @ + 1]
  ELSE pc

\* The transport delivers a track event while it applies the remote
\* description; the handler is synchronous and runs inside the emit.
TrackArrive(c, kind) ==
  /\ call[c].stage = "setRemote"
  /\ CanNegotiate(c)
  /\ conn[c].events < MaxTracks
  /\ conn' = [conn EXCEPT ![c] =
       LET seen == [@ EXCEPT !.events = @ + 1,
                             !.videoIn = IF kind = "video" THEN @ + 1 ELSE @]
       IN IF "track" \in seen.observers THEN OnTrack(seen, kind) ELSE seen]
  /\ UNCHANGED <<pcs, call, obs, sd, nshut>>
  /\ UNCHANGED dvars

\* ------------------------------------------------- connection state changes

\* The transport changes connectionState and emits connectionstatechange:
\* the async handler is scheduled as a task of its own, to run later.  The
\* transport starts to connect once the local description is being applied.
Transition(c, s) ==
  /\ conn[c].created /\ ~conn[c].isClosed
  /\ call[c].stage \in {"setLocal", "returned"}
  /\ s \in TransportNext(conn[c].connectionState)
  /\ obs[c].pending < MaxPending
  /\ conn' = [conn EXCEPT ![c].connectionState = s]
  /\ obs' = [obs EXCEPT ![c].pending =
       IF "connectionstatechange" \in conn[c].observers THEN @ + 1 ELSE @]
  /\ UNCHANGED <<pcs, call, sd, nshut>>
  /\ UNCHANGED dvars

\* A handler that tears down on a lost connection as well.
TeardownOnDisconnect == "disconnected"

\* The state the handler compares with, main.py:204.
TeardownState == "failed"

\* The end of a close() that ran to completion: the connection is closed,
\* and the last notification is scheduled.  A handler that runs from now on
\* reads "closed" and does nothing, so those beyond MaxPending are not kept.
Closed(pc) == [pc EXCEPT !.closeDone = TRUE, !.connectionState = "closed"]

ClosedNotice(o) == [o EXCEPT !.pending = IF @ < MaxPending THEN @ + 1 ELSE @]

\* How a call of close() on a connection whose close() is still running
\* ends: older aiortc returns at once, newer aiortc waits for the running
\* close() to finish.
CloseModes == {"now", "wait"}

\* on_connectionstatechange, main.py:202-206, up to the await of pc.close().
\* The handler reads pc.connectionState when it runs, not when it was
\* scheduled.
HandlerRun(c, mode) ==
  /\ obs[c].pending > 0
  /\ IF conn[c].connectionState # TeardownState
     THEN /\ obs' = [obs EXCEPT ![c].pending = @ - 1]
          /\ UNCHANGED <<pcs, conn>>
     ELSE /\ conn' = [conn EXCEPT ![c].closeCalls = @ + 1, ![c].isClosed = TRUE]
          /\ IF ~conn[c].isClosed
             THEN \* this call runs the close and is suspended in it
                  /\ obs' = [obs EXCEPT ![c].pending = @ - 1, ![c].driving = TRUE]
                  /\ UNCHANGED pcs
             ELSE IF mode = "now"
             THEN \* close() returns without suspending; discard follows
                  HandlerDiscard(c, [obs[c] EXCEPT !.pending = @ - 1])
             ELSE /\ obs' = [obs EXCEPT ![c].pending = @ - 1, ![c].waiting = @ + 1]
                  /\ UNCHANGED pcs
  /\ UNCHANGED <<call, sd, nshut>>
  /\ UNCHANGED dvars

\* await pc.close() returns in the handler that runs the close; pcs.discard(pc)
\* follows at once (main.py:205-206).  If close() raises, discard is skipped.
TeardownCloseReturn(c, ok) ==
  /\ obs[c].driving
  /\ IF ok
     THEN /\ conn' = [conn EXCEPT ![c] = Closed(@)]
          /\ HandlerDiscard(c, ClosedNotice([obs[c] EXCEPT !.driving = FALSE]))
     ELSE /\ obs' = [obs EXCEPT ![c].driving = FALSE, ![c].raised = TRUE]
          /\ UNCHANGED <<pcs, conn>>
  /\ UNCHANGED <<call, sd, nshut>>
  /\ UNCHANGED dvars

\* A handler that waited for a close() run by another task resumes.
TeardownWaitReturn(c) ==
  /\ obs[c].waiting > 0
  /\ conn[c].closeDone
  /\ HandlerDiscard(c, [obs[c] EXCEPT !.waiting = @ - 1])
  /\ UNCHANGED <<conn, call, sd, nshut>>
  /\ UNCHANGED dvars

\* --------------------------------------------------------------- shutdown

\* shutdown_event, main.py:304-307: one close() coroutine per connection in
\* pcs, gathered.  With nothing to gather the await does not suspend and
\* pcs.clear() follows at once.
ShutdownStart ==
  /\ sd.stage \in {"idle", "done", "raised"}
  /\ sd.driving = {} /\ sd.waiting = {}
  /\ nshut < MaxShutdowns
  /\ nshut' = nshut + 1
  /\ IF pcs = {}
     THEN /\ sd' = [IdleSd EXCEPT !.stage = "done"]
          /\ pcs' = {}
     ELSE /\ sd' = [IdleSd EXCEPT !.stage = "gather", !.snapshot = pcs,
                                  !.unstarted = pcs]
          /\ UNCHANGED pcs
  /\ UNCHANGED <<conn, call, obs>>
  /\ UNCHANGED dvars

\* A shutdown that walks the registry itself while it closes: the walk
\* fails on a registry that has changed since it began, with no close made.
SdCloseStartLive(c, mode) ==
  /\ c \in sd.unstarted
  /\ IF pcs = sd.snapshot
     THEN /\ conn' = [conn EXCEPT ![c].closeCalls = @ + 1, ![c].isClosed = TRUE]
          /\ sd' = [sd EXCEPT !.unstarted = @ \ {c},
                              !.driving = IF ~conn[c].isClosed THEN @ \cup {c} ELSE @,
                              !.waiting = IF conn[c].isClosed /\ ~conn[c].closeDone
                                             /\ mode = "wait"
                                          THEN @ \cup {c} ELSE @]
     ELSE /\ sd' = [sd EXCEPT !.unstarted = {}, !.raised = @ \cup {c}]
          /\ UNCHANGED conn
  /\ UNCHANGED <<pcs, call, obs, nshut>>
  /\ UNCHANGED dvars

\* A gathered task starts to run pc.close().
SdCloseStart(c, mode) ==
  /\ c \in sd.unstarted
  /\ conn' = [conn EXCEPT ![c].closeCalls = @ + 1, ![c].isClosed = TRUE]
  /\ sd' = [sd EXCEPT !.unstarted = @ \ {c},
                      !.driving = IF ~conn[c].isClosed THEN @ \cup {c} ELSE @,
                      !.waiting = IF conn[c].isClosed /\ ~conn[c].closeDone
                                     /\ mode = "wait"
                                  THEN @ \cup {c} ELSE @]
  /\ UNCHANGED <<pcs, call, obs, nshut>>
  /\ UNCHANGED dvars

\* A gathered close() returns or raises.
SdCloseReturn(c, ok) ==
  /\ c \in sd.driving
  /\ IF ok
     THEN /\ conn' = [conn EXCEPT ![c] = Closed(@)]
          /\ obs' = [obs EXCEPT ![c] = ClosedNotice(@)]
          /\ sd' = [sd EXCEPT !.driving = @ \ {c}]
     ELSE /\ sd' = [sd EXCEPT !.driving = @ \ {c}, !.raised = @ \cup {c}]
          /\ UNCHANGED <<conn, obs>>
  /\ UNCHANGED <<pcs, call, nshut>>
  /\ UNCHANGED dvars

\* A gathered close() that waited for a close run by a handler returns.
SdWaitReturn(c) ==
  /\ c \in sd.waiting
  /\ conn[c].closeDone
  /\ sd' = [sd EXCEPT !.waiting = @ \ {c}]
  /\ UNCHANGED <<pcs, conn, call, obs, nshut>>
  /\ UNCHANGED dvars

\* await asyncio.gather(*coros) ends, main.py:307-308: the first exception
\* of a task is raised out of shutdown_event as soon as it happens; without
\* one, the await returns when every task is done and pcs.clear() runs.
GatherRaises == sd.raised # {}

GatherDone == sd.unstarted = {} /\ sd.driving = {} /\ sd.waiting = {}

\* A shutdown handler that returns without clearing the registry.
ShutdownResumeKeeps ==
  /\ sd.stage = "gather"
  /\ sd.unstarted = {}
  /\ IF GatherRaises
     THEN sd' = [sd EXCEPT !.stage = "raised"]
     ELSE GatherDone /\ sd' = [sd EXCEPT !.stage = "done"]
  /\ UNCHANGED <<pcs, conn, call, obs, nshut>>
  /\ UNCHANGED dvars

ShutdownResume ==
  /\ sd.stage = "gather"
  /\ sd.unstarted = {}
  /\ IF GatherRaises
     THEN /\ sd' = [sd EXCEPT !.stage = "raised"]
          /\ UNCHANGED pcs
     ELSE /\ GatherDone
          /\ sd' = [sd EXCEPT !.stage = "done"]
          /\ pcs' = {}
  /\ UNCHANGED <<conn, call, obs, nshut>>
  /\ UNCHANGED dvars

\* ------------------------------------------------------------------ /detect
\* Text is a sequence of one-character strings; bytes are a sequence of
\* numbers 0..255; a confidence is in hundredths (25 is 0.25).

MaxLen == 4           \* length of the base64 text of a request
MaxDets == 2          \* detections in one engine output

\* class_names, main.py:244-255
ClassNames ==
  <<
   "person", "bicycle", "car", "motorcycle", "airplane", "bus", "train",
   "truck", "boat", "traffic light", "fire hydrant", "stop sign",
   "parking meter", "bench", "bird", "cat", "dog", "horse", "sheep", "cow",
   "elephant", "bear", "zebra", "giraffe", "backpack", "umbrella",
   "handbag", "tie", "suitcase", "frisbee", "skis", "snowboard",
   "sports ball", "kite", "baseball bat", "baseball glove", "skateboard",
   "surfboard", "tennis racket", "bottle", "wine glass", "cup", "fork",
   "knife", "spoon", "bowl", "banana", "apple", "sandwich", "orange",
   "broccoli", "carrot", "hot dog", "pizza", "donut", "cake", "chair",
   "couch", "potted plant", "bed", "dining table", "toilet", "tv",
   "laptop", "mouse", "remote", "keyboard", "cell phone", "microwave",
   "oven", "toaster", "sink", "refrigerator", "book", "clock", "vase",
   "scissors", "teddy bear", "hair drier", "toothbrush"
  >>

\* The default of DetectionRequest.queries, main.py:142
DefaultQueries ==
  <<
   "person", "car", "bicycle", "motorcycle", "bus", "truck", "dog", "cat",
   "laptop", "phone", "book", "chair", "table", "cup", "bottle", "Pen"
  >>

\* "base64,", main.py:229-230
Marker == <<"b", "a", "s", "e", "6", "4", ",">>

DataUriPrefix ==
  <<"d", "a", "t", "a", ":", "i", "m", "a", "g", "e", "/", "p", "n", "g", ";">> \o Marker

\* m occurs in s at position i
StartsAt(s, m, i) ==
  /\ i + Len(m) - 1 <= Len(s)
  /\ \A j \in 1..Len(m) : s[i + j - 1] = m[j]

\* Python's `m in s`
Contains(s, m) == \E i \in 1..Len(s) : StartsAt(s, m, i)

\* The position of the first occurrence of m in s, 0 if there is none.
Find(s, m) ==
  IF Contains(s, m)
  THEN CHOOSE i \in 1..Len(s) :
         StartsAt(s, m, i) /\ \A j \in 1..(i - 1) : ~StartsAt(s, m, j)
  ELSE 0

\* s.split(m)[1] for an s that contains m: the text after the first m, up to
\* the next m if there is one.
SplitSecond(s, m) ==
  LET rest == SubSeq(s, Find(s, m) + Len(m), Len(s))
      j == Find(rest, m)
  IN IF j = 0 THEN rest ELSE SubSeq(rest, 1, j - 1)

\* A request handled as if it carried no prefix.
KeepPrefix(image) == image

\* main.py:228-230
StripPrefix(image) ==
  IF Contains(image, Marker) THEN SplitSecond(image, Marker) ELSE image

B64Alphabet ==
  <<
   "A", "B", "C", "D", "E", "F", "G", "H", "I", "J", "K", "L", "M", "N",
   "O", "P", "Q", "R", "S", "T", "U", "V", "W", "X", "Y", "Z", "a", "b",
   "c", "d", "e", "f", "g", "h", "i", "j", "k", "l", "m", "n", "o", "p",
   "q", "r", "s", "t", "u", "v", "w", "x", "y", "z", "0", "1", "2", "3",
   "4", "5", "6", "7", "8", "9", "+", "/"
  >>

B64Pad == "="

\* The 6-bit value of a character, 64 for a character outside the alphabet.
B64Value(ch) ==
  IF \E i \in 1..Len(B64Alphabet) : B64Alphabet[i] = ch
  THEN (CHOOSE i \in 1..Len(B64Alphabet) : B64Alphabet[i] = ch) - 1
  ELSE 64

Decoded(bytes) == [ok |-> TRUE, bytes |-> bytes, msg |-> ""]
DecodeError(msg) == [ok |-> FALSE, bytes |-> <<>>, msg |-> msg]

\* base64.b64decode(image_data), main.py:232, as binascii.a2b_base64 does it
\* without strict mode: characters outside the alphabet are skipped, a pad
\* that completes a quad ends the input, an incomplete quad is an error.
RECURSIVE B64Scan(_, _, _, _, _, _)
B64Scan(s, i, quad, left, pads, out) ==
  IF i > Len(s)
  THEN IF quad = 0 THEN Decoded(out)
       ELSE IF quad = 1 THEN DecodeError("Invalid base64-encoded string")
       ELSE DecodeError("Incorrect padding")
  ELSE LET ch == s[i]
           v == B64Value(ch)
       IN IF ch = B64Pad
          THEN IF quad >= 2 /\ quad + pads + 1 >= 4
               THEN Decoded(out)
               ELSE B64Scan(s, i + 1, quad, left, IF quad >= 2 THEN pads + 1 ELSE pads, out)
          ELSE IF v >= 64 THEN B64Scan(s, i + 1, quad, left, pads, out)
          ELSE IF quad = 0 THEN B64Scan(s, i + 1, 1, v, 0, out)
          ELSE IF quad = 1
               THEN B64Scan(s, i + 1, 2, v % 16, 0, Append(out, (left * 4 + v \div 16) % 256))
          ELSE IF quad = 2
               THEN B64Scan(s, i + 1, 3, v % 4, 0, Append(out, (left * 16 + v \div 4) % 256))
          ELSE B64Scan(s, i + 1, 0, 0, 0, Append(out, (left * 64 + v) % 256))

B64Decode(s) == B64Scan(s, 1, 0, 0, 0, <<>>)

\* Image.open(io.BytesIO(image_bytes)), main.py:233: the byte strings PIL
\* reads as an image are the world's.
ImageOpen(bytes) ==
  IF bytes \in world.images
  THEN [ok |-> TRUE, msg |-> ""]
  ELSE [ok |-> FALSE, msg |-> "cannot identify image file"]

\* if confidence > 0.25, main.py:277
ConfFloor == 25

\* A floor that keeps an entry at the floor itself.
AboveFloorOrAt(conf) == conf >= ConfFloor

\* main.py:277
AboveFloor(conf) == conf > ConfFloor

\* class_names[class_id], main.py:272, for a class index that is a natural
\* number (the engine's class indices are positions in its class list).
LabelOf(classId) ==
  IF classId < Len(ClassNames)
  THEN [ok |-> TRUE, label |-> ClassNames[classId + 1]]
  ELSE [ok |-> FALSE, label |-> ""]

\* detection_item, main.py:279-285
DetectionItem(label, d) == [label |-> label, score |-> d.conf, box |-> d.box]

\* The loop over the boxes, main.py:265-286: the label is looked up before
\* the confidence is compared, so an index outside the table raises
\* IndexError whatever the confidence.
RECURSIVE Collect(_, _, _)
Collect(boxes, i, detections) ==
  IF i > Len(boxes) THEN [ok |-> TRUE, detections |-> detections]
  ELSE LET l == LabelOf(boxes[i].cls)
       IN IF ~l.ok THEN [ok |-> FALSE, detections |-> <<>>]
          ELSE Collect(boxes, i + 1,
                       IF AboveFloor(boxes[i].conf)
                       THEN Append(detections, DetectionItem(l.label, boxes[i]))
                       ELSE detections)

\* return {"detections": detections}, main.py:292
Success(detections) ==
  [status |-> 200, kind |-> "detections", detections |-> detections, error |-> ""]

\* What the framework answers when an exception leaves a handler.
Unhandled(exc, msg) ==
  [status |-> 500, kind |-> "unhandled", detections |-> <<>>, error |-> ""]

\* A handler whose except clause catches ValueError only.
ExceptValueError(exc, msg) ==
  IF exc = "binascii.Error"
  THEN [status |-> 500, kind |-> "error", detections |-> <<>>, error |-> msg]
  ELSE Unhandled(exc, msg)

\* except Exception as e: JSONResponse(500, {"error": str(e)}), main.py:294-301;
\* every exception raised in the body is an Exception.
ExceptClause(exc, msg) ==
  [status |-> 500, kind |-> "error", detections |-> <<>>, error |-> msg]

\* Requested labels select the detections returned.
FilterByQueries(detections, queries) ==
  SelectSeq(detections, LAMBDA d : \E i \in 1..Len(queries) : queries[i] = d.label)

\* requested_objects = detection.queries, main.py:258-259: printed, not used.
ApplyQueries(detections, queries) == detections

\* detect_objects, main.py:225-301.  The handler has no await: it runs from
\* the request to the response in one step.
DetectObjects(image, queries) ==
  LET dec == B64Decode(StripPrefix(image))
      img == ImageOpen(dec.bytes)
      res == Collect(world.engine.boxes, 1, <<>>)
  IN IF ~dec.ok THEN ExceptClause("binascii.Error", dec.msg)
     ELSE IF ~img.ok THEN ExceptClause("UnidentifiedImageError", img.msg)
     ELSE IF world.engine.raises THEN ExceptClause("RuntimeError", world.engine.msg)
     ELSE IF ~res.ok THEN ExceptClause("IndexError", "list index out of range")
     ELSE Success(ApplyQueries(res.detections, queries))

\* The request bodies tried: the world's base64 text bare, behind a data
\* URI prefix, and behind the prefix with a second marker and text after it.
Shapes == {"bare", "datauri", "twice"}

Payload(shape) ==
  IF shape = "bare" THEN world.text
  ELSE IF shape = "datauri" THEN DataUriPrefix \o world.text
  ELSE DataUriPrefix \o world.text \o Marker \o world.text

Queries == {<<>>, <<"person">>, DefaultQueries}

Slots == {1, 2}

NoCall ==
  [called |-> FALSE, shape |-> "bare", queries |-> <<>>,
   decoded |-> DecodeError(""), resp |-> Unhandled("", "")]

Detect(i, shape, queries) ==
  /\ ~det[i].called
  /\ det' = [det EXCEPT ![i] =
       [called |-> TRUE, shape |-> shape, queries |-> queries,
        decoded |-> B64Decode(StripPrefix(Payload(shape))),
        resp |-> DetectObjects(Payload(shape), queries)]]
  /\ UNCHANGED <<world, pcs, conn, call, obs, sd, nshut>>

\* ------------------------------------------------------- specifications

\* A world with nothing to detect.
QuietWorld ==
  [text |-> <<>>, images |-> {}, engine |-> [raises |-> FALSE, msg |-> "", boxes |-> <<>>]]

\* The server after startup: pcs = set(), main.py:44; no request yet.
Init ==
  /\ pcs = {}
  /\ conn = [c \in Conns |-> NewConn]
  /\ call = [k \in Conns |-> IdleCall]
  /\ obs = [c \in Conns |-> IdleObs]
  /\ sd = IdleSd
  /\ nshut = 0
  /\ world = QuietWorld
  /\ det = [i \in Slots |-> NoCall]

\* uvicorn.run, main.py:311-313: the server runs the shutdown handler once,
\* only after it has stopped accepting requests and the requests in flight
\* have ended.  Tasks the transport scheduled (state-change handlers) are
\* not requests and go on running.
Serving == nshut = 0

Drained == \A k \in Conns : call[k].stage \in {"idle", "returned", "raised"}

Next ==
  \/ \E k \in Conns, sdp \in SdpBodies, type \in OfferTypes :
        Serving /\ OfferStart(k, sdp, type)
  \/ \E k \in Conns, ok \in BOOLEAN : OfferRemoteDone(k, ok)
  \/ \E k \in Conns, ok \in BOOLEAN : OfferAnswerCreated(k, ok)
  \/ \E k \in Conns, ok \in BOOLEAN : OfferLocalDone(k, ok)
  \/ \E c \in Conns, s \in ConnStates : Transition(c, s)
  \/ \E c \in Conns, mode \in CloseModes : HandlerRun(c, mode)
  \/ \E c \in Conns, ok \in BOOLEAN : TeardownCloseReturn(c, ok)
  \/ \E c \in Conns : TeardownWaitReturn(c)
  \/ Serving /\ Drained /\ ShutdownStart
  \/ \E c \in Conns, mode \in CloseModes : SdCloseStart(c, mode)
  \/ \E c \in Conns, ok \in BOOLEAN : SdCloseReturn(c, ok)
  \/ \E c \in Conns : SdWaitReturn(c)
  \/ ShutdownResume

Spec == Init /\ [][Next]_vars

\* The same server with the shutdown handler called again after it has
\* ended, which the handler itself allows (main.py:303-308).
NextAgain ==
  \/ Next
  \/ ~Serving /\ Drained /\ ShutdownStart

SpecAgain == Init /\ [][NextAgain]_vars

\* The same server with the track events of the connections, before shutdown.
NextMedia ==
  \/ \E k \in Conns, sdp \in SdpBodies, type \in OfferTypes : OfferStart(k, sdp, type)
  \/ \E k \in Conns, ok \in BOOLEAN : OfferRemoteDone(k, ok)
  \/ \E k \in Conns, ok \in BOOLEAN : OfferAnswerCreated(k, ok)
  \/ \E k \in Conns, ok \in BOOLEAN : OfferLocalDone(k, ok)
  \/ \E c \in Conns, kind \in TrackKinds : TrackArrive(c, kind)
  \/ \E c \in Conns, s \in ConnStates : Transition(c, s)
  \/ \E c \in Conns, mode \in CloseModes : HandlerRun(c, mode)
  \/ \E c \in Conns, ok \in BOOLEAN : TeardownCloseReturn(c, ok)

SpecMedia == Init /\ [][NextMedia]_vars

\* The /detect handler on its own, beside a registered, connected connection
\* that relays a video track: the inputs are drawn at the start, the
\* requests apply the handler to them.
TextChars == {"Q", "g", "="}

Texts == UNION {[1..n -> TextChars] : n \in 0..MaxLen}

ClassIds == {0, 79, 80}

Confs == {24, 25, 26}

BoxCoords == {<<1, 2, 3, 4>>}

EngineBoxes == [cls : ClassIds, conf : Confs, box : BoxCoords]

EngineOutputs == UNION {[1..n -> EngineBoxes] : n \in 0..MaxDets}

EngineReturns(boxes) == [raises |-> FALSE, msg |-> "", boxes |-> boxes]

EngineRaises == [raises |-> TRUE, msg |-> "engine failure", boxes |-> <<>>]

SampleText == <<"Q", "Q", "=", "=">>

SampleBoxes ==
  <<[cls |-> 0, conf |-> 26, box |-> <<1, 2, 3, 4>>],
    [cls |-> 79, conf |-> 24, box |-> <<1, 2, 3, 4>>]>>

\* The sets of byte strings PIL may read as an image, given the text sent.
ImageSets(text) ==
  LET dec == B64Decode(text)
  IN IF dec.ok /\ dec.bytes # <<>> THEN {{}, {dec.bytes}} ELSE {{}}

Worlds ==
  UNION {{[text |-> t, images |-> im, engine |-> e] :
            im \in ImageSets(t), e \in {EngineRaises, EngineReturns(SampleBoxes)}} :
         t \in Texts}
  \cup
  {[text |-> SampleText, images |-> {B64Decode(SampleText).bytes}, engine |-> EngineReturns(b)] :
     b \in EngineOutputs}

RelayingConn ==
  [NewConn EXCEPT !.created = TRUE, !.observers = AttachedObservers,
                  !.connectionState = "connected", !.localDescription = CreateAnswer,
                  !.videoIn = 1, !.senders = 1, !.subs = 1, !.events = 1]

ReturnedCall ==
  [stage |-> "returned", sdp |-> "v=0", type |-> "offer",
   log |-> <<"create", "register", "attach", "setRemote", "createAnswer", "setLocal", "return">>,
   resp |-> CreateAnswer]

InitDetect ==
  /\ world \in Worlds
  /\ pcs = {1}
  /\ conn = [c \in Conns |-> IF c = 1 THEN RelayingConn ELSE NewConn]
  /\ call = [k \in Conns |-> IF k = 1 THEN ReturnedCall ELSE IdleCall]
  /\ obs = [c \in Conns |-> IdleObs]
  /\ sd = IdleSd
  /\ nshut = 0
  /\ det = [i \in Slots |-> NoCall]

NextDetect == \E i \in Slots, shape \in Shapes, queries \in Queries : Detect(i, shape, queries)

SpecDetect == InitDetect /\ [][NextDetect]_vars

\* ====================================================================
\* Claims about the registry, the offer handler and shutdown (under Spec)
\* ====================================================================

\* shutdown_event returns normally in this step.
ShutdownFinishes == sd.stage # "done" /\ sd'.stage = "done"

\* shutdown_event ends in this step, by returning or by raising.
ShutdownEnds == sd.stage = "gather" /\ sd'.stage # "gather"

\* C1: when shutdown finishes, the registry is empty and every connection
\* that was ever registered has had close invoked exactly once in total.
C1_ShutdownClosesEachOnce ==
  [][ShutdownFinishes =>
       /\ pcs' = {}
       /\ \A c \in Conns : conn'[c].created => conn'[c].closeCalls = 1]_vars

\* C2: if a close raises during shutdown, shutdown still returns normally,
\* the registry is cleared and every other connection of the snapshot is
\* closed.
C2_CloseErrorIsCollected ==
  [][ShutdownEnds /\ sd.raised # {} =>
       /\ sd'.stage = "done"
       /\ pcs' = {}
       /\ \A c \in sd.snapshot \ sd.raised : conn'[c].closeDone]_vars

\* C3: once offer has failed in negotiation (after the connection was
\* created), that connection is not in the registry.
C3_FailedNegotiationDiscarded ==
  \A k \in Conns : call[k].stage = "raised" /\ conn[k].created => k \notin pcs

\* Call k was made with an empty type or an empty sdp.
EmptyOffer(k) == call[k].stage # "idle" /\ (call[k].type = "" \/ call[k].sdp = "")

\* C4: an offer with an empty type or an empty sdp is rejected before any
\* connection is created: nothing is registered and no observer is attached.
C4_EmptyOfferRejected ==
  \A k \in Conns : EmptyOffer(k) =>
     /\ call[k].stage = "raised"
     /\ ~conn[k].created
     /\ conn[k].observers = {}
     /\ k \notin pcs

WellFormed(k) == call[k].type = "offer" /\ call[k].sdp # ""

OfferSteps ==
  <<"create", "register", "attach", "setRemote", "createAnswer", "setLocal", "return">>

CreatedConns == {c \in Conns : conn[c].created}

\* What a returned call looks like.
C5_Returned ==
  \A k \in Conns : call[k].stage = "returned" /\ WellFormed(k) =>
     /\ call[k].resp.type = "answer"
     /\ call[k].resp.sdp # ""
     /\ call[k].log = OfferSteps
     /\ conn[k].created
     /\ conn[k].observers = {"connectionstatechange", "track"}

\* The first step of a call that creates a connection.
C5_Registers ==
  \A k \in Conns : call[k].stage = "idle" /\ call'[k].stage = "setRemote" =>
     /\ k \notin pcs
     /\ pcs' = pcs \cup {k}
     /\ CreatedConns' = CreatedConns \cup {k}
     /\ k \notin CreatedConns

\* C5: an offer call that succeeds on a well-formed offer returns a
\* description of type "answer" with a non-empty sdp, after these steps in
\* this order: create, register, attach observers, set remote description,
\* create answer, set local description, return; the call created exactly
\* one connection, added it to the registry and attached both observers.
C5_OfferSucceeds == [](C5_Returned) /\ [][C5_Registers]_vars

\* A call on a well-formed offer has returned; its connection is registered.
C5_Witness ==
  \E k \in Conns : call[k].stage = "returned" /\ WellFormed(k) /\ k \in pcs

DiscardTwiceIsOnce ==
  \A c \in Conns :
    LET once == RegistryDiscard(pcs, c)
        twice == RegistryDiscard(once.reg, c)
    IN ~once.raised /\ ~twice.raised /\ twice.reg = once.reg

\* A handler's pcs.discard(pc) runs in this step.
HandlerDiscards(c) ==
  \/ TeardownCloseReturn(c, TRUE)
  \/ TeardownWaitReturn(c)
  \/ HandlerRun(c, "now") /\ conn[c].connectionState = TeardownState /\ conn[c].isClosed

\* C10: discarding twice is the same as discarding once and raises no
\* error, also when a failed-state handler discards a connection that
\* shutdown's clear has already removed.
C10_DiscardIdempotent ==
  /\ [](DiscardTwiceIsOnce)
  /\ [][\A c \in Conns : HandlerDiscards(c) /\ c \notin pcs =>
          pcs' = pcs /\ obs'[c].raised = obs[c].raised]_vars

\* A handler's discard has run on a registry that shutdown had cleared.
C10_Witness ==
  \E c \in Conns : obs[c].absent /\ sd.stage = "done" /\ c \in sd.snapshot

\* Under SpecAgain:
\* C11: a shutdown run after an earlier one has returned closes no
\* connection, raises no error, returns without waiting and leaves the
\* registry empty.
C11_ShutdownIdempotent ==
  [][sd.stage = "done" /\ nshut' # nshut =>
       /\ pcs = {} /\ pcs' = {}
       /\ conn' = conn
       /\ sd'.stage = "done"
       /\ sd'.snapshot = {} /\ sd'.raised = {}]_vars

\* Shutdown has run twice; the first run closed and removed a connection
\* that no state-change handler could have closed, the second had nothing
\* to close.
C11_Witness ==
  /\ nshut = 2 /\ sd.stage = "done" /\ sd.snapshot = {}
  /\ \E c \in Conns :
       /\ call[c].type = "answer"
       /\ conn[c].closeDone /\ conn[c].closeCalls = 1
       /\ c \notin pcs

\* C13: every connection that was registered and is no longer in the
\* registry (removed by a handler's discard or by shutdown's clear) has had
\* its close completed.
C13_RemovalFollowsClosure ==
  \A c \in Conns : conn[c].created /\ c \notin pcs => conn[c].closeDone

\* An offer handler's pcs.add(pc) runs in this step.
HandlerAdds(k) == call[k].stage = "idle" /\ call'[k].stage = "setRemote"

\* C17: under every interleaving of the offer handlers, the state-change
\* handlers and shutdown, each step leaves the registry as it was, with
\* the connections added in the step, without those discarded in it, and
\* empty if shutdown cleared it: no add and no discard is lost.
C17_NoLostUpdate ==
  [][LET added == {k \in Conns : HandlerAdds(k)}
         discarded == {c \in Conns : HandlerDiscards(c)}
     IN /\ added \cap pcs = {}
        /\ pcs' = IF ShutdownFinishes THEN {} ELSE (pcs \cup added) \ discarded]_vars

\* Two offer handlers are in flight; the connection of one has been torn
\* down and discarded by its handler, the connection of the other is
\* registered.
C17_Witness ==
  \E c \in Conns, d \in Conns :
     /\ c # d /\ nshut = 0
     /\ call[c].stage = "setLocal" /\ conn[c].closeDone /\ c \notin pcs
     /\ call[d].stage \in {"setRemote", "createAnswer", "setLocal"} /\ d \in pcs

\* The connections whose close shutdown invokes in this step.
SdCloses == IF sd.stage = "gather" THEN sd.unstarted \ sd'.unstarted ELSE {}

\* C18: the connections shutdown closes are those in the registry at the
\* instant it starts; while it waits, no discard changes that set or breaks
\* the walk: each of them has its close invoked by shutdown, no other has,
\* and shutdown returns only when none is left.
C18_ShutdownSnapshot ==
  /\ [](sd.stage = "gather" => sd.unstarted \subseteq sd.snapshot)
  /\ [][/\ nshut' # nshut => sd'.snapshot = pcs /\ sd'.unstarted = pcs
        /\ sd.stage = "gather" => sd'.snapshot = sd.snapshot
        /\ \A c \in SdCloses :
              /\ c \in sd.snapshot
              /\ conn'[c].closeCalls = conn[c].closeCalls + 1
              /\ sd'.raised = sd.raised
        /\ ShutdownFinishes => sd.unstarted = {}]_vars

\* While shutdown waits, a handler has discarded a connection of the
\* snapshot; shutdown has invoked close on it all the same.
C18_Witness ==
  /\ sd.stage = "gather"
  /\ \E c \in sd.snapshot \ pcs :
       c \notin sd.unstarted /\ conn[c].closeCalls = 2

\* ====================================================================
\* Claims about the observers of a connection (under SpecMedia)
\* ====================================================================

\* C12: once the state-change handler of a failed connection has yielded
\* control (it is suspended in close, or has ended), the connection is not
\* in the registry; no shutdown runs.
C12_FailedAbsentAfterYield ==
  \A c \in Conns :
     nshut = 0 /\ (obs[c].driving \/ obs[c].raised) => c \notin pcs

\* The state-change handler of c runs in this step.
HandlerRuns(c) == obs'[c].pending < obs[c].pending

\* C14: a state-change handler that finds its connection in any state but
\* failed (connecting, connected, disconnected, closed) invokes no close,
\* suspends nowhere and leaves the registry unchanged; a disconnected
\* connection is registered and has never been closed.
C14_OnlyFailedTearsDown ==
  /\ [](\A c \in Conns : conn[c].connectionState = "disconnected" =>
           c \in pcs /\ conn[c].closeCalls = 0)
  /\ [][\A c \in Conns : HandlerRuns(c) /\ conn[c].connectionState # "failed" =>
          /\ pcs' = pcs
          /\ conn' = conn
          /\ obs' = [obs EXCEPT ![c].pending = @ - 1]]_vars

\* The handler of a disconnected connection has run; the connection is
\* still registered and open.
C14_Witness ==
  \E c \in Conns :
     /\ conn[c].connectionState = "disconnected" /\ obs[c].pending = 0
     /\ c \in pcs /\ conn[c].closeCalls = 0 /\ ~conn[c].isClosed

\* A track event is delivered to c in this step.
TrackArrives(c) == conn'[c].events = conn[c].events + 1

\* C15: the arrival of a video track creates exactly one relay subscription
\* and adds exactly one pass-through track to the same connection; the
\* arrival of a track of another kind creates and adds nothing and raises
\* nothing; a connection always has as many pass-through tracks as video
\* tracks have arrived on it.
C15_TracksWired ==
  /\ [](\A c \in Conns : conn[c].senders = conn[c].videoIn)
  /\ [][\A c \in Conns : TrackArrives(c) =>
          LET n == conn'[c].videoIn - conn[c].videoIn
          IN /\ n \in {0, 1}
             /\ conn'[c].subs = conn[c].subs + n
             /\ conn'[c].senders = conn[c].senders + n
             /\ \A d \in Conns \ {c} : conn'[d] = conn[d]
             /\ call' = call /\ pcs' = pcs]_vars

\* An audio track and a video track have arrived on one connection, which
\* has one pass-through track on one subscription.
C15_Witness ==
  \E c \in Conns :
     /\ conn[c].events = 2 /\ conn[c].videoIn = 1
     /\ conn[c].senders = 1 /\ conn[c].subs = 1
     /\ call[c].stage = "returned"

\* The handler of c that runs the close of c ends in this step, by
\* returning or by raising.
TeardownEnds(c) == obs[c].driving /\ ~obs'[c].driving

\* C16, as far as it is about the registry: when the teardown of a failed
\* connection with one video subscription ends, the registry has lost
\* exactly that connection and every other connection is as it was.
C16_TeardownRemovesExactlyThat ==
  [][\A c \in Conns : TeardownEnds(c) /\ conn[c].subs = 1 =>
        /\ c \in pcs
        /\ pcs' = pcs \ {c}
        /\ \A d \in Conns \ {c} : conn'[d] = conn[d] /\ obs'[d] = obs[d]]_vars

\* The transport changes the state of c in this step.
StateChanges(c) ==
  /\ conn'[c].connectionState # conn[c].connectionState
  /\ conn'[c].connectionState # "closed"

\* C19: when an offer handler first suspends, its new connection is in the
\* registry and has both observers; so a created connection is registered
\* until its teardown begins, every state change the transport makes
\* schedules the handler and every video track that arrives is relayed,
\* during negotiation as well.
C19_RegisteredBeforeSuspension ==
  /\ [](\A c \in Conns : conn[c].created =>
           /\ conn[c].observers = {"connectionstatechange", "track"}
           /\ c \in pcs \/ conn[c].isClosed)
  /\ [][\A c \in Conns :
          /\ HandlerAdds(c) =>
                ~conn[c].created /\ conn'[c].created /\ c \in pcs'
          /\ StateChanges(c) => obs'[c].pending = obs[c].pending + 1
          /\ TrackArrives(c) =>
                conn'[c].senders - conn[c].senders = conn'[c].videoIn - conn[c].videoIn]_vars

\* A video track and a state change were delivered to a connection whose
\* offer handler is still negotiating; the track is relayed and the
\* state-change handler is scheduled.
C19_Witness ==
  \E c \in Conns :
     /\ call[c].stage = "setLocal" /\ c \in pcs
     /\ conn[c].videoIn = 1 /\ conn[c].senders = 1
     /\ conn[c].connectionState = "connecting" /\ obs[c].pending = 1

\* ====================================================================
\* Claims about the detect handler (under SpecDetect)
\* ====================================================================

Called == {i \in Slots : det[i].called}

\* The item the handler returns for an engine box.
ItemOf(b) == [label |-> ClassNames[b.cls + 1], score |-> b.conf, box |-> b.box]

\* C6: two requests with the same image and engine output that differ only
\* in queries get identical responses, and a response with detections holds
\* every engine detection above the confidence floor.
C6_QueriesIgnored ==
  /\ \A i \in Called, j \in Called :
       det[i].shape = det[j].shape => det[i].resp = det[j].resp
  /\ \A i \in Called : det[i].resp.kind = "detections" =>
       \A n \in 1..Len(world.engine.boxes) :
          world.engine.boxes[n].conf > ConfFloor =>
             \E m \in 1..Len(det[i].resp.detections) :
                det[i].resp.detections[m] = ItemOf(world.engine.boxes[n])

\* Two requests differ in queries only, one with no queries at all, and
\* both got a detection labelled "person" that only one of them asked for.
C6_Witness ==
  /\ Called = Slots
  /\ det[1].shape = det[2].shape
  /\ det[1].queries = <<>> /\ det[2].queries = DefaultQueries
  /\ det[1].resp.kind = "detections"
  /\ \E m \in 1..Len(det[1].resp.detections) : det[1].resp.detections[m].label = "person"
  /\ Len(det[1].resp.detections) = 2

\* The engine output holds a class index outside the label table.
OutsideTable == \E n \in 1..Len(world.engine.boxes) : world.engine.boxes[n].cls >= Len(ClassNames)

Fails(i) ==
  \/ ~det[i].decoded.ok
  \/ det[i].decoded.bytes \notin world.images
  \/ world.engine.raises
  \/ OutsideTable

FailureMessage(i) ==
  IF ~det[i].decoded.ok THEN det[i].decoded.msg
  ELSE IF det[i].decoded.bytes \notin world.images THEN "cannot identify image file"
  ELSE IF world.engine.raises THEN world.engine.msg
  ELSE "list index out of range"

\* The response to a request that failed.
C7_StructuredError ==
  \A i \in Called : Fails(i) =>
     /\ det[i].resp.status = 500
     /\ det[i].resp.kind = "error"
     /\ det[i].resp.error = FailureMessage(i)
     /\ det[i].resp.detections = <<>>

C8_PrefixRoundTrip ==
  /\ StripPrefix(DataUriPrefix \o world.text) = world.text
  /\ StripPrefix(world.text) = world.text
  /\ \A i \in Called, j \in Called :
       det[i].shape = "datauri" /\ det[j].shape = "bare" =>
          /\ det[i].decoded = det[j].decoded
          /\ det[i].queries = det[j].queries => det[i].resp = det[j].resp

\* A prefixed and a bare request both decoded to an image and got detections.
C8_Witness ==
  /\ Called = Slots
  /\ det[1].shape = "datauri" /\ det[2].shape = "bare"
  /\ det[1].queries = det[2].queries
  /\ det[1].decoded.ok /\ Len(det[1].decoded.bytes) = 3
  /\ det[2].resp.kind = "detections" /\ det[2].resp.detections # <<>>

\* The response the claim expects for an engine output, with `keep` the
\* test of a confidence against the threshold.
Kept(boxes, keep(_)) ==
  LET f == SelectSeq(boxes, LAMBDA b : keep(b.conf))
  IN [n \in 1..Len(f) |-> ItemOf(f[n])]

\* The request reached the loop over the boxes and every class index is in
\* the label table.
Labelled(i) == det[i].called /\ ~Fails(i)

\* C9 as stated: the entries whose confidence is not below 0.25 are
\* returned (one at exactly 0.25 is kept), in engine order, each with the
\* label of the table at its class index and its box unchanged.
C9_KeepsAtFloor ==
  \A i \in Slots : Labelled(i) =>
     /\ det[i].resp.kind = "detections"
     /\ det[i].resp.detections = Kept(world.engine.boxes, LAMBDA c : c >= ConfFloor)

\* C9 as amended: the entries whose confidence is strictly above 0.25 are
\* returned (one at exactly 0.25 is discarded), in engine order, each with
\* the label of the table at its class index and its box unchanged.
C9_KeepsAboveFloor ==
  \A i \in Slots : Labelled(i) =>
     /\ det[i].resp.status = 200
     /\ det[i].resp.kind = "detections"
     /\ det[i].resp.detections = Kept(world.engine.boxes, LAMBDA c : c > ConfFloor)

\* An engine output with one entry at exactly 0.25 and a later one above it
\* was answered with the later one alone.
C9_Witness ==
  \E i \in Slots :
     /\ Labelled(i)
     /\ Len(world.engine.boxes) = 2
     /\ world.engine.boxes[1].conf = ConfFloor
     /\ world.engine.boxes[2].conf > ConfFloor
     /\ world.engine.boxes[2].cls = 79
     /\ det[i].resp.detections = <<ItemOf(world.engine.boxes[2])>>

====
